---- MODULE Spec2Model ----
(***************************************************************************)
(* Format-dispatching parse pipeline of src/src/parsers: the Universal     *)
(* Dispatcher (UniversalParser.parse / parse_multiple) and the Format      *)
(* Parsers it drives or that are called directly (PDFParser, ExcelParser,  *)
(* WordParser, TextParser).                                                *)
(*                                                                         *)
(* A path is a record [abs, ext, node]: whether the string is absolute,    *)
(* its suffix (without the dot, in the case it was written), and the       *)
(* file-system object the name denotes.  The file system does not change   *)
(* while a call runs.  What the third-party readers (polars, openpyxl,     *)
(* pdfplumber, pypdf, python-docx, open) do with a file is part of the     *)
(* node: primary / fallback tell whether the first / second reader a       *)
(* parser uses raises on that file.  For TextParser the node carries the   *)
(* bytes of the file, and the codecs decide which open() raises.           *)
(***************************************************************************)
EXTENDS Integers, Sequences, FiniteSets, TLC

VARIABLES
    config,      \* the ParserConfig shared by the dispatcher and its parsers
    entry,       \* the operation the caller invoked ("none" before any call)
    file_paths,  \* the caller's argument: the list of paths (one path for a single parse)
    k,           \* parse_multiple: position of the path being parsed
    results,     \* parse_multiple: the list built so far
    file_path,   \* the path the running parse works on (resolved by UniversalParser.parse)
    i,           \* UniversalParser.parse: position in self.parsers
    running,     \* the Format Parser whose parse is executing ("" if none)
    pc,          \* where the call is
    ret,         \* what the innermost finished call returned or raised
    out,         \* what the caller's operation returned or raised
    log,         \* the calls made during the current parse, in order
    arg,         \* the caller's argument when it is not a path (a Table, a cell grid)
    handles,     \* the file handles that are open
    threads      \* concurrent callers of one dispatcher: the local state of each call

vars == <<config, entry, file_paths, k, results, file_path, i, running, pc, ret, out, log,
          arg, handles, threads>>

-----------------------------------------------------------------------------
(* Bounds of the model *)

\* longest list handed to parse_multiple
MaxBatch == 2

\* most bytes in a text file whose content is modelled byte by byte
MaxFileBytes == 3

\* most columns of a table header; a row holds up to one cell more
MaxWidth == 3

\* most data rows of a table
MaxRows == 2

\* concurrent callers of one dispatcher
NumThreads == 2

-----------------------------------------------------------------------------
(* Program constants *)

\* ParserConfig.max_file_size_mb default
DefaultMaxFileSizeMB == 50

\* bytes per MB in validate_file: 1024 * 1024
BytesPerMB == 1048576

-----------------------------------------------------------------------------
(* The file system and the paths handed to the program *)

\* suffixes as written by the caller (without the dot); "" is a name without suffix
Exts == {"pdf", "PDF", "csv", "tsv", "xlsx", "xls", "docx", "Docx", "doc",
         "txt", "text", "md", "markdown", "log", "html", ""}

\* str.lower() on the suffixes above
Lower(e) == CASE e = "PDF" -> "pdf"
              [] e = "Docx" -> "docx"
              [] OTHER -> e

\* page layouts: one entry per page, TRUE when the page has extractable text
PageLayouts == {<<TRUE>>, <<TRUE, FALSE>>, <<TRUE, TRUE>>}

\* Python's None in a cell of a raw table or sheet
None == "<None>"

\* the cell grid of the table / sheet a file may hold: a header row, a data row
SampleGrid == << <<"A", "B">>, <<"x", None>> >>

\* a grid whose rows are shorter and longer than its header row
RaggedGrid == << <<"A", "B", "C">>, <<"x", "y">>, <<"x", "y", "z", "w">> >>

\* a grid whose header cells are empty, and so equal
BlankHeaderGrid == << <<None, None>>, <<"x", "y">> >>

\* a grid of a header row alone
HeaderOnlyGrid == << <<"A">> >>

\* the grids of the files that hold a table
NodeGrids == {SampleGrid, RaggedGrid, BlankHeaderGrid, HeaderOnlyGrid}

\* the byte values a text file is made of: ASCII "a", and three bytes above 0x7F
Bytes == {"61", "E9", "80", "81"}

\* file contents of up to MaxFileBytes bytes
ByteStrings == UNION {[1..n -> Bytes] : n \in 0..MaxFileBytes}

NoNode == [kind |-> "missing", st_size |-> 0, primary |-> FALSE, fallback |-> FALSE,
           ntables |-> 0, pages |-> <<TRUE>>, bytes |-> <<"61">>, grid |-> <<>>]

DirNode == [kind |-> "dir", st_size |-> 0, primary |-> FALSE, fallback |-> FALSE,
            ntables |-> 0, pages |-> <<TRUE>>, bytes |-> <<"61">>, grid |-> <<>>]

\* a regular file one byte over the default size limit
BigNode == [kind |-> "file", st_size |-> DefaultMaxFileSizeMB * BytesPerMB + 1,
            primary |-> TRUE, fallback |-> TRUE, ntables |-> 1, pages |-> <<TRUE>>,
            bytes |-> <<"61">>, grid |-> SampleGrid]

\* regular files within the limit (the largest is exactly at the limit), without a
\* table or with one table of one of the grids
FileNodes ==
    UNION {[kind : {"file"}, st_size : {DefaultMaxFileSizeMB * BytesPerMB},
            primary : BOOLEAN, fallback : BOOLEAN,
            ntables : {IF g = <<>> THEN 0 ELSE 1}, pages : PageLayouts,
            bytes : {<<"61">>}, grid : {g}] : g \in {<<>>} \cup NodeGrids}

\* small text files, one for each content
TextNodes == {[kind |-> "file", st_size |-> Len(b), primary |-> TRUE, fallback |-> TRUE,
               ntables |-> 0, pages |-> <<TRUE>>, bytes |-> b, grid |-> <<>>] : b \in ByteStrings}

Nodes == {NoNode, DirNode, BigNode} \cup FileNodes

\* the text files, under the suffixes TextParser and ExcelParser accept
TextPaths == [abs : BOOLEAN, ext : {"txt", "log"}, node : TextNodes]

Paths == [abs : BOOLEAN, ext : Exts, node : Nodes] \cup TextPaths

\* the paths used in lists for parse_multiple
BatchNodes == {NoNode, DirNode, BigNode} \cup
              {n \in FileNodes : n.grid = SampleGrid /\ n.pages = <<TRUE>> /\ (n.primary => n.fallback)}

BatchPaths == {p \in Paths : p.ext \in {"pdf", "csv", "docx"} /\ p.node \in BatchNodes}

BatchLists == UNION {[1..n -> BatchPaths] : n \in 0..MaxBatch}

\* mutant of Resolve: the path is used as the caller wrote it
Resolve_AsWritten(p) == p

\* Path(file_path).resolve(): the absolute form of the path
Resolve(p) == [p EXCEPT !.abs = TRUE]

\* Path.exists()
Exists(p) == p.node.kind # "missing"

\* Path.is_file()
IsFile(p) == p.node.kind = "file"

\* Path(file_path).suffix: the suffix in the case it was written ("" if none)
Suffix(p) == p.ext

-----------------------------------------------------------------------------
(* models.py *)

DocumentType == {"pdf", "word", "excel", "csv", "text", "html", "unknown"}

ParserConfigs == [extract_tables : BOOLEAN, max_file_size_mb : {DefaultMaxFileSizeMB},
                  encoding : {"utf-8"}]

\* Table(headers, rows, num_rows, num_columns)
Table(headers, rows, num_rows, num_columns) ==
    [headers |-> headers, rows |-> rows, num_rows |-> num_rows, num_columns |-> num_columns]

\* an empty metadata dict
EmptyDict == [key \in {} |-> 0]

RECURSIVE RowDict(_, _, _)
\* Table.to_dict, the inner loop after the first n headers: row_dict[header] = value
\* (a later assignment to the same key replaces the earlier one)
RowDict(headers, row, n) ==
    IF n = 0 THEN EmptyDict
    ELSE (headers[n] :> (IF n <= Len(row) THEN row[n] ELSE "")) @@ RowDict(headers, row, n - 1)

\* mutant of to_dict: dict(zip(headers, row)), which stops at the shorter of the two
to_dict_Zip(t) ==
    IF t.headers = <<>> \/ t.rows = <<>> THEN <<>>
    ELSE [r \in 1..Len(t.rows) |->
             RowDict(t.headers, t.rows[r],
                     IF Len(t.rows[r]) < Len(t.headers) THEN Len(t.rows[r]) ELSE Len(t.headers))]

\* Table.to_dict
to_dict(t) ==
    IF t.headers = <<>> \/ t.rows = <<>> THEN <<>>
    ELSE [r \in 1..Len(t.rows) |-> RowDict(t.headers, t.rows[r], Len(t.headers))]

\* the Tables to_dict is applied to: headers of up to MaxWidth names, up to MaxRows
\* rows of up to MaxWidth + 1 cells; the cell at position n of every row is CellNames[n]
HeaderNames == {"A", "B", "C"}
CellNames == <<"x", "y", "z", "w", "v", "u">>
TableHeaders == UNION {[1..n -> HeaderNames] : n \in 0..MaxWidth}
TableRows == UNION {[1..n -> {SubSeq(CellNames, 1, m) : m \in 0..(MaxWidth + 1)}] : n \in 0..MaxRows}
Tables == {Table(h, rs, Len(rs), Len(h)) : h \in TableHeaders, rs \in TableRows}

\* ParsedDocument(...) as built by parse_multiple for a failed path
ParsedDocument(fp, dtype, text, metadata) ==
    [file_path |-> fp, document_type |-> dtype, text |-> text,
     tables |-> <<>>, metadata |-> metadata]

-----------------------------------------------------------------------------
(* base_parser.py *)

\* mutant of validate_file: the size check is missing
validate_file_NoSizeCheck(p, cfg) ==
    IF ~Exists(p) THEN FALSE
    ELSE IF ~IsFile(p) THEN FALSE
    ELSE TRUE

\* mutant of validate_file: the is_file check is missing
validate_file_NoFileCheck(p, cfg) ==
    IF ~Exists(p) THEN FALSE
    ELSE IF p.node.st_size > cfg.max_file_size_mb * BytesPerMB THEN FALSE
    ELSE TRUE

\* BaseParser.validate_file
validate_file(p, cfg) ==
    IF ~Exists(p) THEN FALSE
    ELSE IF ~IsFile(p) THEN FALSE
    ELSE IF p.node.st_size > cfg.max_file_size_mb * BytesPerMB THEN FALSE
    ELSE TRUE

\* BaseParser.get_file_extension
get_file_extension(p) == Lower(p.ext)

\* BaseParser.create_parsed_document
create_parsed_document(fp, dtype, text, tables, metadata) ==
    [file_path |-> fp, document_type |-> dtype, text |-> text,
     tables |-> tables, metadata |-> metadata]

-----------------------------------------------------------------------------
(* Outcomes of a call and exceptions *)

Return(d) == [kind |-> "doc", doc |-> d]
Raise(e) == [kind |-> "raise", err |-> e]
TryFallback == [kind |-> "fallback"]
NoOutcome == [kind |-> "none"]

\* raise ValueError(f"Invalid file: {file_path}")
InvalidFileError(p) ==
    [type |-> "ValueError", msg |-> [fmt |-> "Invalid file: {file_path}", file_path |-> p]]

\* an exception raised inside a third-party reader
LibError(lib) == [type |-> "Exception", msg |-> [fmt |-> "reader failed", lib |-> lib]]

-----------------------------------------------------------------------------
(* pdf_parser.py *)

\* mutant of PageMarkers: the marker is appended for every page, with or without text
PageMarkers_EveryPage(pages, n) == [m \in 1..(Len(pages) - n + 1) |-> n + m - 1]

RECURSIVE PageMarkers(_, _)
\* the page numbers that get a "--- Page N ---" marker: pages whose extract_text() is non-empty
PageMarkers(pages, n) ==
    IF n > Len(pages) THEN <<>>
    ELSE (IF pages[n] THEN <<n>> ELSE <<>>) \o PageMarkers(pages, n + 1)

\* str(cell) if cell else ""
PdfCell(c) == IF c = None \/ c = "" THEN "" ELSE c

\* mutant of convert_table: num_rows counts the header row too
convert_table_CountsHeaderRow(table_data) ==
    IF table_data = <<>> THEN Table(<<>>, <<>>, 0, 0)
    ELSE LET headers == [c \in 1..Len(table_data[1]) |-> PdfCell(table_data[1][c])]
             rows == [r \in 1..(Len(table_data) - 1) |->
                         [c \in 1..Len(table_data[r + 1]) |-> PdfCell(table_data[r + 1][c])]]
         IN Table(headers, rows, Len(table_data), Len(headers))

\* PDFParser._convert_table
convert_table(table_data) ==
    IF table_data = <<>> THEN Table(<<>>, <<>>, 0, 0)
    ELSE LET headers == [c \in 1..Len(table_data[1]) |-> PdfCell(table_data[1][c])]
             rows == [r \in 1..(Len(table_data) - 1) |->
                         [c \in 1..Len(table_data[r + 1]) |-> PdfCell(table_data[r + 1][c])]]
         IN Table(headers, rows, Len(rows), Len(headers))

\* the raw tables pdfplumber finds in the file
RawTables(p) == [t \in 1..p.node.ntables |-> p.node.grid]

\* PDFParser._parse_with_pdfplumber, when pdfplumber does not raise
parse_with_pdfplumber(p, cfg) ==
    LET all_tables == IF cfg.extract_tables
                      THEN [t \in 1..Len(RawTables(p)) |-> convert_table(RawTables(p)[t])]
                      ELSE <<>>
    IN create_parsed_document(p, "pdf",
           [fmt |-> "--- Page {page_num} ---", pages |-> PageMarkers(p.node.pages, 1)],
           all_tables,
           [pages |-> Len(p.node.pages)])

\* PDFParser._parse_with_pypdf, when pypdf does not raise (document properties left out)
parse_with_pypdf(p) ==
    create_parsed_document(p, "pdf",
        [fmt |-> "--- Page {page_num} ---", pages |-> PageMarkers(p.node.pages, 1)],
        <<>>,
        [pages |-> Len(p.node.pages), method |-> "pypdf"])

\* PDFParser.parse, the first try block: pdfplumber
PDFPrimary(p, cfg) ==
    IF p.node.primary THEN Return(parse_with_pdfplumber(p, cfg)) ELSE TryFallback

\* mutant of PDFFallback: a failing pypdf degrades to an error-as-text document
PDFFallback_ErrorAsText(p, cfg) ==
    IF p.node.fallback THEN Return(parse_with_pypdf(p))
    ELSE Return(create_parsed_document(p, "pdf",
                    [fmt |-> "Error parsing PDF file: {e}", e |-> LibError("pypdf").msg],
                    <<>>, EmptyDict))

\* PDFParser.parse, the except block: pypdf, and a bare raise when it fails too
PDFFallback(p, cfg) ==
    IF p.node.fallback THEN Return(parse_with_pypdf(p)) ELSE Raise(LibError("pypdf"))

-----------------------------------------------------------------------------
(* excel_parser.py *)

\* the suffix polars gives the n-th repetition of a column name
Duplicated == <<"_duplicated_0", "_duplicated_1", "_duplicated_2", "_duplicated_3">>

\* the name polars gives column c of a header row: names are made unique
ColumnName(header, c) ==
    LET name == IF header[c] = None THEN "" ELSE header[c]
        before == Cardinality({j \in 1..(c - 1) : header[j] = header[c]})
    IN IF before = 0 THEN name ELSE name \o Duplicated[before]

\* the DataFrame polars reads from the file: column names and rows.  A DataFrame is
\* rectangular: every row has one cell for each column (null where the file has none)
Frame(grid) ==
    IF grid = <<>> THEN [columns |-> <<>>, rows |-> <<>>]
    ELSE [columns |-> [c \in 1..Len(grid[1]) |-> ColumnName(grid[1], c)],
          rows |-> [r \in 1..(Len(grid) - 1) |->
                       [c \in 1..Len(grid[1]) |->
                           IF c <= Len(grid[r + 1]) THEN grid[r + 1][c] ELSE None]]]

\* str(cell) on a DataFrame cell
DfCell(c) == IF c = None THEN "None" ELSE c

\* ExcelParser._dataframe_to_table
dataframe_to_table(df) ==
    Table(df.columns,
          [r \in 1..Len(df.rows) |-> [c \in 1..Len(df.rows[r]) |-> DfCell(df.rows[r][c])]],
          Len(df.rows), Len(df.columns))

\* ExcelParser._create_document_from_dataframe
create_document_from_dataframe(p, df, doc_type, metadata) ==
    create_parsed_document(p, doc_type,
        [fmt |-> "str(df)", df |-> df],
        <<dataframe_to_table(df)>>,
        [rows |-> Len(df.rows), columns |-> Len(df.columns),
         column_names |-> df.columns,
         shape |-> <<Len(df.rows), Len(df.columns)>>] @@ metadata)

\* ExcelParser._parse_as_text
parse_as_text(p, doc_type) ==
    IF p.node.fallback
    THEN create_parsed_document(p, doc_type, [fmt |-> "f.read()"], <<>>, EmptyDict)
    ELSE create_parsed_document(p, doc_type,
             [fmt |-> "Error reading file: {e}", e |-> LibError("open").msg], <<>>, EmptyDict)

\* the rows openpyxl yields: str(cell) if cell is not None else ""
SheetData(p) ==
    [r \in 1..Len(p.node.grid) |->
        [c \in 1..Len(p.node.grid[r]) |->
            IF p.node.grid[r][c] = None THEN "" ELSE p.node.grid[r][c]]]

RECURSIVE DictKeys(_, _)
\* the keys of {header: ... for i, header in enumerate(headers)} after the first n
\* headers, in insertion order: a repeated header is one key
DictKeys(headers, n) ==
    IF n = 0 THEN <<>>
    ELSE IF \E j \in 1..(n - 1) : headers[j] = headers[n]
         THEN DictKeys(headers, n - 1)
         ELSE Append(DictKeys(headers, n - 1), headers[n])

\* the position whose value a key of that dict holds: the last one with that header
LastIndex(headers, h) ==
    CHOOSE j \in 1..Len(headers) :
        headers[j] = h /\ \A m \in (j + 1)..Len(headers) : headers[m] # h

\* ExcelParser._parse_excel_fallback: df_data = {header: [row[i] if i < len(row) else ""
\* for row in rows] ...}; df = pl.DataFrame(df_data)
SheetFrame(data) ==
    LET headers == data[1]
        columns == DictKeys(headers, Len(headers))
    IN [columns |-> columns,
        rows |-> IF columns = <<>> THEN <<>>
                 ELSE [r \in 1..(Len(data) - 1) |->
                          [c \in 1..Len(columns) |->
                              LET n == LastIndex(headers, columns[c]) IN
                              IF n <= Len(data[r + 1]) THEN data[r + 1][n] ELSE ""]]]

\* ExcelParser._parse_excel_fallback
parse_excel_fallback(p) ==
    IF p.node.fallback
    THEN IF SheetData(p) = <<>>
         THEN create_parsed_document(p, "excel", [fmt |-> "Empty spreadsheet"], <<>>, EmptyDict)
         ELSE create_document_from_dataframe(p, SheetFrame(SheetData(p)), "excel", EmptyDict)
    ELSE create_parsed_document(p, "excel",
             [fmt |-> "Error parsing Excel file: {e}", e |-> LibError("openpyxl").msg],
             <<>>, EmptyDict)

\* mutant of ExcelPrimary: a .tsv file is typed EXCEL
ExcelPrimary_TsvAsExcel(p, cfg) ==
    LET ext == get_file_extension(p) IN
    IF ~p.node.primary THEN TryFallback
    ELSE IF ext = "csv"
         THEN Return(create_document_from_dataframe(p, Frame(p.node.grid), "csv", EmptyDict))
         ELSE Return(create_document_from_dataframe(p, Frame(p.node.grid), "excel",
                         [sheet_name |-> "Sheet1", format |-> "excel"]))

\* ExcelParser._parse_csv / _parse_tsv / _parse_excel, the try block
ExcelPrimary(p, cfg) ==
    LET ext == get_file_extension(p) IN
    IF ~p.node.primary THEN TryFallback
    ELSE IF ext \in {"csv", "tsv"}
         THEN Return(create_document_from_dataframe(p, Frame(p.node.grid), "csv", EmptyDict))
         ELSE Return(create_document_from_dataframe(p, Frame(p.node.grid), "excel",
                         [sheet_name |-> "Sheet1", format |-> "excel"]))

\* mutant of ExcelFallback: a failing second reader propagates its exception
ExcelFallback_Propagate(p, cfg) ==
    IF ~p.node.fallback
    THEN Raise(LibError(IF get_file_extension(p) \in {"csv", "tsv"} THEN "open" ELSE "openpyxl"))
    ELSE IF get_file_extension(p) \in {"csv", "tsv"}
         THEN Return(parse_as_text(p, "csv"))
         ELSE Return(parse_excel_fallback(p))

\* ExcelParser._parse_csv / _parse_tsv / _parse_excel, the except block
ExcelFallback(p, cfg) ==
    IF get_file_extension(p) \in {"csv", "tsv"}
    THEN Return(parse_as_text(p, "csv"))
    ELSE Return(parse_excel_fallback(p))

-----------------------------------------------------------------------------
(* word_parser.py *)

\* WordParser._parse_word_table
parse_word_table(cells) ==
    IF cells = <<>> THEN Table(<<>>, <<>>, 0, 0)
    ELSE LET headers == cells[1]
             rows == SubSeq(cells, 2, Len(cells))
         IN Table(headers, rows, Len(rows), Len(headers))

\* the cell texts of the tables of a .docx file (cell.text.strip())
WordTables(p) ==
    [t \in 1..p.node.ntables |->
        [r \in 1..Len(p.node.grid) |->
            [c \in 1..Len(p.node.grid[r]) |->
                IF p.node.grid[r][c] = None THEN "" ELSE p.node.grid[r][c]]]]

\* WordParser._parse_docx, when python-docx does not raise (paragraph count and core
\* properties left out of the metadata)
parse_docx(p, cfg) ==
    LET parsed == [t \in 1..Len(WordTables(p)) |-> parse_word_table(WordTables(p)[t])]
        tables == IF cfg.extract_tables
                  THEN SelectSeq(parsed, LAMBDA t : t.rows # <<>>)
                  ELSE <<>>
    IN create_parsed_document(p, "word", [fmt |-> "paragraphs"], tables,
           [tables |-> Len(WordTables(p))])

\* WordParser._parse_as_text: the .doc placeholder
word_parse_as_text(p) ==
    create_parsed_document(p, "word",
        [fmt |-> "Note: .doc format requires conversion to .docx for full parsing"],
        <<>>,
        [warning |-> "Limited parsing for .doc format"])

\* WordParser.parse after validation
WordPrimary(p, cfg) ==
    IF get_file_extension(p) = "doc" THEN Return(word_parse_as_text(p))
    ELSE IF p.node.primary THEN Return(parse_docx(p, cfg))
    ELSE Raise(LibError("docx"))

-----------------------------------------------------------------------------
(* text_parser.py *)

\* mutant of FallbackEncodings: cp1252 is tried before latin-1
FallbackEncodings_Cp1252First == <<"cp1252", "latin-1", "iso-8859-1">>

\* the encodings tried after config.encoding, in order
FallbackEncodings == <<"latin-1", "cp1252", "iso-8859-1">>

\* the characters the bytes above stand for under the codecs
Chars == {"U+0061", "U+00E9", "U+0080", "U+0081", "U+20AC",
          "U+9000", "U+9001", "U+9040", "U+9041"}

\* latin-1 (iso-8859-1 is the same codec): byte 0xNN is character U+00NN
Latin1Char(b) ==
    CASE b = "61" -> "U+0061"
      [] b = "E9" -> "U+00E9"
      [] b = "80" -> "U+0080"
      [] b = "81" -> "U+0081"

\* cp1252: as latin-1 except 0x80..0x9F; 0x80 is the euro sign, 0x81 is undefined
Cp1252Char(b) ==
    CASE b = "61" -> "U+0061"
      [] b = "E9" -> "U+00E9"
      [] b = "80" -> "U+20AC"
      [] b = "81" -> "undefined"

\* the outcome of a decode or encode: ok, and the characters or bytes produced
Coded(seq) == [ok |-> TRUE, seq |-> seq]
CodecError == [ok |-> FALSE, seq |-> <<>>]

\* the three-byte UTF-8 sequence E9 xx yy
Utf8Char3(x, y) ==
    CASE x = "80" /\ y = "80" -> "U+9000"
      [] x = "80" /\ y = "81" -> "U+9001"
      [] x = "81" /\ y = "80" -> "U+9040"
      [] x = "81" /\ y = "81" -> "U+9041"

RECURSIVE Utf8Decode(_, _)
\* bytes.decode("utf-8") from position n on: 0x61 is one character, 0xE9 leads a
\* three-byte sequence, a continuation byte alone is an error
Utf8Decode(bs, n) ==
    IF n > Len(bs) THEN Coded(<<>>)
    ELSE IF bs[n] = "61"
         THEN LET rest == Utf8Decode(bs, n + 1) IN
              IF rest.ok THEN Coded(<<"U+0061">> \o rest.seq) ELSE CodecError
         ELSE IF bs[n] = "E9" /\ n + 2 <= Len(bs) /\ bs[n + 1] \in {"80", "81"}
                              /\ bs[n + 2] \in {"80", "81"}
              THEN LET rest == Utf8Decode(bs, n + 3) IN
                   IF rest.ok THEN Coded(<<Utf8Char3(bs[n + 1], bs[n + 2])>> \o rest.seq)
                   ELSE CodecError
              ELSE CodecError

\* bytes.decode(enc): the characters, or UnicodeDecodeError
Decode(enc, bs) ==
    CASE enc = "utf-8" -> Utf8Decode(bs, 1)
      [] enc = "cp1252" ->
            IF \E n \in 1..Len(bs) : Cp1252Char(bs[n]) = "undefined" THEN CodecError
            ELSE Coded([n \in 1..Len(bs) |-> Cp1252Char(bs[n])])
      [] enc \in {"latin-1", "iso-8859-1"} -> Coded([n \in 1..Len(bs) |-> Latin1Char(bs[n])])

\* whether the bytes of the file decode under an encoding
Decodes(enc, p) == Decode(enc, p.node.bytes).ok

\* the document TextParser.parse builds after a successful read (the line count is
\* left out of the metadata)
TextDocument(p, enc) ==
    LET text == Decode(enc, p.node.bytes).seq IN
    create_parsed_document(p, "text", [fmt |-> "f.read()", chars |-> text], <<>>,
        [encoding |-> enc, characters |-> Len(text)])

\* TextParser.parse, the try block: read with config.encoding
TextPrimary(p, cfg) ==
    IF Decodes(cfg.encoding, p) THEN Return(TextDocument(p, cfg.encoding)) ELSE TryFallback

RECURSIVE TextRetry(_, _)
\* TextParser.parse, the except UnicodeDecodeError block: the loop over the encodings
TextRetry(p, n) ==
    IF n > Len(FallbackEncodings)
    THEN Raise([type |-> "ValueError",
                msg |-> [fmt |-> "Could not decode text file: {file_path}", file_path |-> p]])
    ELSE IF Decodes(FallbackEncodings[n], p)
         THEN Return(TextDocument(p, FallbackEncodings[n]))
         ELSE TextRetry(p, n + 1)

TextFallback(p, cfg) == TextRetry(p, 1)

-----------------------------------------------------------------------------
(* The Format Parser classes *)

FormatParsers == {"PDFParser", "ExcelParser", "WordParser", "TextParser"}

\* mutant of SUPPORTED_EXTENSIONS: ExcelParser lists pdf as well
SUPPORTED_EXTENSIONS_ExcelTakesPdf(parser) ==
    CASE parser = "PDFParser" -> {"pdf"}
      [] parser = "ExcelParser" -> {"xlsx", "xls", "csv", "tsv", "pdf"}
      [] parser = "WordParser" -> {"docx", "doc"}
      [] parser = "TextParser" -> {"txt", "text", "md", "markdown", "log"}

\* the SUPPORTED_EXTENSIONS class attributes
SUPPORTED_EXTENSIONS(parser) ==
    CASE parser = "PDFParser" -> {"pdf"}
      [] parser = "ExcelParser" -> {"xlsx", "xls", "csv", "tsv"}
      [] parser = "WordParser" -> {"docx", "doc"}
      [] parser = "TextParser" -> {"txt", "text", "md", "markdown", "log"}

\* <Parser>.can_parse
can_parse(parser, p) == get_file_extension(p) \in SUPPORTED_EXTENSIONS(parser)

\* the first format-specific step of <Parser>.parse, after validate_file
Primary(parser, p, cfg) ==
    CASE parser = "PDFParser" -> PDFPrimary(p, cfg)
      [] parser = "ExcelParser" -> ExcelPrimary(p, cfg)
      [] parser = "WordParser" -> WordPrimary(p, cfg)
      [] parser = "TextParser" -> TextPrimary(p, cfg)

\* the reader that step calls
PrimaryReader(parser, p) ==
    CASE parser = "PDFParser" -> "pdfplumber.open"
      [] parser = "ExcelParser" ->
            IF get_file_extension(p) \in {"csv", "tsv"} THEN "pl.read_csv" ELSE "pl.read_excel"
      [] parser = "WordParser" ->
            IF get_file_extension(p) = "doc" THEN "_parse_as_text" ELSE "docx.Document"
      [] parser = "TextParser" -> "open(config.encoding)"

\* the step taken when the first one raised
Fallback(parser, p, cfg) ==
    CASE parser = "PDFParser" -> PDFFallback(p, cfg)
      [] parser = "ExcelParser" -> ExcelFallback(p, cfg)
      [] parser = "TextParser" -> TextFallback(p, cfg)

\* the reader that step calls
FallbackReader(parser, p) ==
    CASE parser = "PDFParser" -> "pypdf.PdfReader"
      [] parser = "ExcelParser" ->
            IF get_file_extension(p) \in {"csv", "tsv"} THEN "open" ELSE "openpyxl.load_workbook"
      [] parser = "TextParser" -> "open(fallback encodings)"

\* the handles a reader has opened and not released when its block of <Parser>.parse is
\* left.  open() and pdfplumber.open() are used in a with statement; PdfReader, Document,
\* read_csv and read_excel read the file and close it before they return;
\* load_workbook(read_only=True) keeps the archive open until Workbook.close(), which
\* _parse_excel_fallback never calls (a load_workbook that raises has opened nothing)
OpenAfter(reader, raised) ==
    IF reader = "openpyxl.load_workbook" /\ ~raised THEN {"openpyxl archive"} ELSE {}

-----------------------------------------------------------------------------
(* universal_parser.py *)

\* mutant of parsers: WordParser and TextParser are registered too
parsers_AllRegistered == <<"PDFParser", "ExcelParser", "WordParser", "TextParser">>

\* UniversalParser.__init__: self.parsers
parsers == <<"PDFParser", "ExcelParser">>

\* mutant of detect_format: a path that does not exist has no format
detect_format_ExistingOnly(p) ==
    LET ext == Lower(p.ext) IN
    CASE ~Exists(p) -> "unknown"
      [] ext = "pdf" -> "pdf"
      [] ext \in {"docx", "doc"} -> "word"
      [] ext \in {"xlsx", "xls"} -> "excel"
      [] ext \in {"csv", "tsv"} -> "csv"
      [] ext \in {"txt", "text", "md", "markdown"} -> "text"
      [] OTHER -> "unknown"

\* UniversalParser.detect_format
detect_format(p) ==
    LET ext == Lower(p.ext) IN
    CASE ext = "pdf" -> "pdf"
      [] ext \in {"docx", "doc"} -> "word"
      [] ext \in {"xlsx", "xls"} -> "excel"
      [] ext \in {"csv", "tsv"} -> "csv"
      [] ext \in {"txt", "text", "md", "markdown"} -> "text"
      [] OTHER -> "unknown"

\* UniversalParser.get_supported_formats: the union of the registered parsers' extensions
get_supported_formats == UNION {SUPPORTED_EXTENSIONS(parsers[n]) : n \in 1..Len(parsers)}

\* raise ValueError(f"File not found: {file_path}")
FileNotFoundError(p) ==
    [type |-> "ValueError", msg |-> [fmt |-> "File not found: {file_path}", file_path |-> p]]

\* the extensions the "Supported formats:" line of the final error spells out
SupportedFormatsLine == {"pdf", "xlsx", "xls", "csv"}

\* raise ValueError(f"No parser available for file type: {ext}\nSupported formats: ...")
NoParserError(p) ==
    [type |-> "ValueError",
     msg |-> [fmt |-> "No parser available for file type: {ext}", ext |-> Suffix(p),
              formats |-> SupportedFormatsLine]]

\* mutant of ErrorDocument: the error document carries the resolved path
ErrorDocument_ResolvedPath(p, e) ==
    ParsedDocument(Resolve(p), "unknown", [fmt |-> "Error: {e}", e |-> e.msg], [error |-> e.msg])

\* the error document parse_multiple stores for a path whose parse raised
ErrorDocument(p, e) ==
    ParsedDocument(p, "unknown", [fmt |-> "Error: {e}", e |-> e.msg], [error |-> e.msg])

-----------------------------------------------------------------------------
(* The calls as functions of their input *)

\* <Parser>.parse(p): validate_file, the first step, and the second if the first raised
FormatResult(parser, p, cfg) ==
    IF ~validate_file(p, cfg) THEN Raise(InvalidFileError(p))
    ELSE LET o == Primary(parser, p, cfg) IN
         IF o.kind = "fallback" THEN Fallback(parser, p, cfg) ELSE o

RECURSIVE ParseFrom(_, _, _)
\* UniversalParser.parse: the loop over self.parsers from position n on
ParseFrom(fp, n, cfg) ==
    IF n > Len(parsers) THEN Raise(NoParserError(fp))
    ELSE IF can_parse(parsers[n], fp) /\ FormatResult(parsers[n], fp, cfg).kind = "doc"
         THEN FormatResult(parsers[n], fp, cfg)
         ELSE ParseFrom(fp, n + 1, cfg)

\* UniversalParser.parse(p)
ParseResult(p, cfg) ==
    IF ~Exists(Resolve(p)) THEN Raise(FileNotFoundError(Resolve(p)))
    ELSE ParseFrom(Resolve(p), 1, cfg)

-----------------------------------------------------------------------------
(* The calls, step by step *)

NoPath == [abs |-> FALSE, ext |-> "", node |-> NoNode]

\* no argument other than paths
NoArg == [kind |-> "none"]

Threads == 1..NumThreads

\* a caller that has not called yet
IdleCall == [pc |-> "idle", input |-> NoPath, file_path |-> NoPath, i |-> 0,
             running |-> "", ret |-> NoOutcome, out |-> NoOutcome]

Init ==
    /\ config \in ParserConfigs
    /\ entry = "none"
    /\ file_paths = <<>>
    /\ k = 0
    /\ results = <<>>
    /\ file_path = NoPath
    /\ i = 0
    /\ running = ""
    /\ pc = "idle"
    /\ ret = NoOutcome
    /\ out = NoOutcome
    /\ log = <<>>
    /\ arg = NoArg
    /\ handles = {}
    /\ threads = [t \in Threads |-> IdleCall]

\* UniversalParser.parse is entered with path p: file_path = str(Path(file_path).resolve())
BeginParse(p) ==
    /\ file_path' = Resolve(p)
    /\ i' = 0
    /\ running' = ""
    /\ ret' = NoOutcome
    /\ log' = <<>>
    /\ pc' = "parse_exists"

\* UniversalParser.parse returns or raises: to the caller, or back into parse_multiple
EndParse(o) ==
    /\ ret' = o
    /\ IF entry = "parse"
       THEN pc' = "done" /\ out' = o
       ELSE pc' = "batch_collect" /\ out' = out

\* <Parser>.parse returns or raises: to the caller, or back into UniversalParser.parse
EndFormatParse(o) ==
    /\ ret' = o
    /\ IF entry \in FormatParsers
       THEN pc' = "done" /\ out' = o
       ELSE pc' = "parse_attempt" /\ out' = out

\* the caller invokes UniversalParser.parse(p)
CallParse ==
    /\ pc = "idle"
    /\ \E p \in Paths :
       /\ entry' = "parse"
       /\ file_paths' = <<p>>
       /\ k' = 1
       /\ results' = <<>>
       /\ out' = NoOutcome
       /\ BeginParse(p)
       /\ UNCHANGED <<config, arg, handles, threads>>

\* the caller invokes UniversalParser.parse_multiple(ps): results = []
CallParseMultiple ==
    /\ pc = "idle"
    /\ \E ps \in BatchLists :
       /\ entry' = "parse_multiple"
       /\ file_paths' = ps
       /\ k' = 1
       /\ results' = <<>>
       /\ out' = NoOutcome
       /\ file_path' = NoPath
       /\ i' = 0
       /\ running' = ""
       /\ ret' = NoOutcome
       /\ log' = <<>>
       /\ pc' = "batch_loop"
       /\ UNCHANGED <<config, arg, handles, threads>>

\* the caller invokes the parse of one Format Parser directly
CallFormatParse ==
    /\ pc = "idle"
    /\ \E parser \in FormatParsers, p \in Paths :
       /\ entry' = parser
       /\ file_paths' = <<p>>
       /\ k' = 1
       /\ results' = <<>>
       /\ out' = NoOutcome
       /\ file_path' = p
       /\ i' = 0
       /\ running' = parser
       /\ ret' = NoOutcome
       /\ log' = <<<<"parse", parser>>>>
       /\ pc' = "fp_validate"
       /\ UNCHANGED <<config, arg, handles, threads>>

\* the caller invokes Table.to_dict on a table
CallToDict ==
    /\ pc = "idle"
    /\ \E t \in Tables :
       /\ entry' = "Table.to_dict"
       /\ arg' = [kind |-> "table", table |-> t]
       /\ out' = [kind |-> "dicts", dicts |-> to_dict(t)]
       /\ pc' = "done"
       /\ UNCHANGED <<config, handles, threads, file_paths, k, results, file_path, i, running,
                      ret, log>>

\* the caller invokes UniversalParser.detect_format(p)
CallDetectFormat ==
    /\ pc = "idle"
    /\ \E p \in Paths :
       /\ entry' = "detect_format"
       /\ file_paths' = <<p>>
       /\ k' = 1
       /\ out' = [kind |-> "type", type |-> detect_format(p)]
       /\ pc' = "done"
       /\ UNCHANGED <<config, arg, handles, threads, results, file_path, i, running, ret, log>>

\* parse_multiple: for file_path in file_paths: doc = self.parse(file_path)
BatchNext ==
    /\ pc = "batch_loop"
    /\ k <= Len(file_paths)
    /\ BeginParse(file_paths[k])
    /\ UNCHANGED <<config, arg, handles, threads, entry, file_paths, k, results, out>>

\* parse_multiple: return results
BatchReturn ==
    /\ pc = "batch_loop"
    /\ k > Len(file_paths)
    /\ out' = [kind |-> "list", docs |-> results]
    /\ pc' = "done"
    /\ UNCHANGED <<config, arg, handles, threads, entry, file_paths, k, results, file_path, i, running, ret, log>>

\* mutant of BatchCollect: a failed path is logged and skipped, nothing is appended
BatchCollect_SkipFailed ==
    /\ pc = "batch_collect"
    /\ results' = IF ret.kind = "doc" THEN Append(results, ret.doc) ELSE results
    /\ k' = k + 1
    /\ pc' = "batch_loop"
    /\ UNCHANGED <<config, arg, handles, threads, entry, file_paths, file_path, i, running, ret, out, log>>

\* parse_multiple: results.append(doc), or the error document in the except block
BatchCollect ==
    /\ pc = "batch_collect"
    /\ results' = Append(results, IF ret.kind = "doc" THEN ret.doc
                                  ELSE ErrorDocument(file_paths[k], ret.err))
    /\ k' = k + 1
    /\ pc' = "batch_loop"
    /\ UNCHANGED <<config, arg, handles, threads, entry, file_paths, file_path, i, running, ret, out, log>>

\* UniversalParser.parse: if not Path(file_path).exists(): raise
ParseCheckExists ==
    /\ pc = "parse_exists"
    /\ IF ~Exists(file_path)
       THEN /\ EndParse(Raise(FileNotFoundError(file_path)))
            /\ i' = i
       ELSE /\ pc' = "parse_select"
            /\ i' = 1
            /\ UNCHANGED <<ret, out>>
    /\ UNCHANGED <<config, arg, handles, threads, entry, file_paths, k, results, file_path, running, log>>

\* UniversalParser.parse: for parser in self.parsers: if parser.can_parse(file_path): parser.parse(...)
ParseSelect ==
    /\ pc = "parse_select"
    /\ i <= Len(parsers)
    /\ IF can_parse(parsers[i], file_path)
       THEN /\ running' = parsers[i]
            /\ log' = log \o <<<<"can_parse", parsers[i]>>, <<"parse", parsers[i]>>>>
            /\ pc' = "fp_validate"
            /\ i' = i
       ELSE /\ log' = Append(log, <<"can_parse", parsers[i]>>)
            /\ i' = i + 1
            /\ UNCHANGED <<running, pc>>
    /\ UNCHANGED <<config, arg, handles, threads, entry, file_paths, k, results, file_path, ret, out>>

\* UniversalParser.parse: the loop is over, raise the "No parser available" error
ParseNoParser ==
    /\ pc = "parse_select"
    /\ i > Len(parsers)
    /\ EndParse(Raise(NoParserError(file_path)))
    /\ UNCHANGED <<config, arg, handles, threads, entry, file_paths, k, results, file_path, i, running, log>>

\* mutant of ParseAttemptDone: the exception of the attempt ends the call
ParseAttemptDone_Reraise ==
    /\ pc = "parse_attempt"
    /\ EndParse(ret)
    /\ log' = Append(log, <<IF ret.kind = "doc" THEN "return" ELSE "logger.error", running>>)
    /\ UNCHANGED <<config, arg, handles, threads, entry, file_paths, k, results, file_path, i, running>>

\* UniversalParser.parse: return parser.parse(file_path), or except Exception: continue
ParseAttemptDone ==
    /\ pc = "parse_attempt"
    /\ IF ret.kind = "doc"
       THEN /\ EndParse(ret)
            /\ log' = Append(log, <<"return", running>>)
            /\ i' = i
       ELSE /\ log' = Append(log, <<"logger.error", running>>)
            /\ i' = i + 1
            /\ pc' = "parse_select"
            /\ UNCHANGED <<ret, out>>
    /\ UNCHANGED <<config, arg, handles, threads, entry, file_paths, k, results, file_path, running>>

\* <Parser>.parse: if not self.validate_file(file_path): raise ValueError
FormatValidate ==
    /\ pc = "fp_validate"
    /\ log' = Append(log, <<"validate_file", running>>)
    /\ IF validate_file(file_path, config)
       THEN pc' = "fp_primary" /\ UNCHANGED <<ret, out>>
       ELSE EndFormatParse(Raise(InvalidFileError(file_path)))
    /\ UNCHANGED <<config, arg, handles, threads, entry, file_paths, k, results, file_path, i, running>>

\* <Parser>.parse: the first format-specific step
FormatPrimary ==
    /\ pc = "fp_primary"
    /\ log' = Append(log, <<PrimaryReader(running, file_path), running>>)
    /\ LET o == Primary(running, file_path, config) IN
       IF o.kind = "fallback"
       THEN pc' = "fp_fallback" /\ UNCHANGED <<ret, out>>
       ELSE EndFormatParse(o)
    /\ handles' = handles \cup OpenAfter(PrimaryReader(running, file_path), ~file_path.node.primary)
    /\ UNCHANGED <<config, arg, threads, entry, file_paths, k, results, file_path, i, running>>

\* <Parser>.parse: the step taken after the first one raised
FormatFallback ==
    /\ pc = "fp_fallback"
    /\ log' = Append(log, <<FallbackReader(running, file_path), running>>)
    /\ EndFormatParse(Fallback(running, file_path, config))
    /\ handles' = handles \cup OpenAfter(FallbackReader(running, file_path), ~file_path.node.fallback)
    /\ UNCHANGED <<config, arg, threads, entry, file_paths, k, results, file_path, i, running>>

Next ==
    \/ CallParse
    \/ CallParseMultiple
    \/ CallFormatParse
    \/ CallToDict
    \/ CallDetectFormat
    \/ BatchNext
    \/ BatchReturn
    \/ BatchCollect
    \/ ParseCheckExists
    \/ ParseSelect
    \/ ParseNoParser
    \/ ParseAttemptDone
    \/ FormatValidate
    \/ FormatPrimary
    \/ FormatFallback

Spec == Init /\ [][Next]_vars

-----------------------------------------------------------------------------
(* Concurrent callers of one dispatcher.  Each caller runs UniversalParser.parse with
   its own locals (threads[t]); the dispatcher, its parsers and the ParserConfig they
   share are one object for all of them.  A step is one line of parse or of the
   running parser's parse; steps of different callers interleave freely. *)

\* the paths the concurrent callers parse
ConcPaths == {p \in BatchPaths : ~p.abs /\ p.node.kind \in {"missing", "file"}
                                /\ p.node.st_size <= DefaultMaxFileSizeMB * BytesPerMB}

\* caller t enters UniversalParser.parse(p)
ThreadCall(t) ==
    /\ threads[t].pc = "idle"
    /\ \E p \in ConcPaths :
          threads' = [threads EXCEPT ![t] =
                         [pc |-> "parse_exists", input |-> p, file_path |-> Resolve(p), i |-> 0,
                          running |-> "", ret |-> NoOutcome, out |-> NoOutcome]]
    /\ UNCHANGED <<config, entry, file_paths, k, results, file_path, i, running, pc, ret, out,
                   log, arg, handles>>

\* caller t: if not Path(file_path).exists(): raise
ThreadCheckExists(t) ==
    /\ threads[t].pc = "parse_exists"
    /\ threads' = [threads EXCEPT ![t] =
                      IF ~Exists(threads[t].file_path)
                      THEN [threads[t] EXCEPT !.pc = "done", !.out = Raise(FileNotFoundError(threads[t].file_path))]
                      ELSE [threads[t] EXCEPT !.pc = "parse_select", !.i = 1]]
    /\ UNCHANGED <<config, entry, file_paths, k, results, file_path, i, running, pc, ret, out,
                   log, arg, handles>>

\* caller t: for parser in self.parsers: if parser.can_parse(file_path)
ThreadSelect(t) ==
    /\ threads[t].pc = "parse_select"
    /\ threads[t].i <= Len(parsers)
    /\ threads' = [threads EXCEPT ![t] =
                      IF can_parse(parsers[threads[t].i], threads[t].file_path)
                      THEN [threads[t] EXCEPT !.pc = "fp_validate", !.running = parsers[threads[t].i]]
                      ELSE [threads[t] EXCEPT !.i = threads[t].i + 1]]
    /\ UNCHANGED <<config, entry, file_paths, k, results, file_path, i, running, pc, ret, out,
                   log, arg, handles>>

\* caller t: the loop is over, raise the "No parser available" error
ThreadNoParser(t) ==
    /\ threads[t].pc = "parse_select"
    /\ threads[t].i > Len(parsers)
    /\ threads' = [threads EXCEPT ![t] =
                      [threads[t] EXCEPT !.pc = "done", !.out = Raise(NoParserError(threads[t].file_path))]]
    /\ UNCHANGED <<config, entry, file_paths, k, results, file_path, i, running, pc, ret, out,
                   log, arg, handles>>

\* caller t, in <Parser>.parse: if not self.validate_file(file_path): raise ValueError
ThreadValidate(t) ==
    /\ threads[t].pc = "fp_validate"
    /\ threads' = [threads EXCEPT ![t] =
                      IF validate_file(threads[t].file_path, config)
                      THEN [threads[t] EXCEPT !.pc = "fp_primary"]
                      ELSE [threads[t] EXCEPT !.pc = "parse_attempt",
                                     !.ret = Raise(InvalidFileError(threads[t].file_path))]]
    /\ UNCHANGED <<config, entry, file_paths, k, results, file_path, i, running, pc, ret, out,
                   log, arg, handles>>

\* caller t, in <Parser>.parse: the first format-specific step
ThreadPrimary(t) ==
    /\ threads[t].pc = "fp_primary"
    /\ threads' = [threads EXCEPT ![t] =
                      LET o == Primary(threads[t].running, threads[t].file_path, config) IN
                      IF o.kind = "fallback"
                      THEN [threads[t] EXCEPT !.pc = "fp_fallback"]
                      ELSE [threads[t] EXCEPT !.pc = "parse_attempt", !.ret = o]]
    /\ UNCHANGED <<config, entry, file_paths, k, results, file_path, i, running, pc, ret, out,
                   log, arg, handles>>

\* mutant of ThreadFallback: the text-only pypdf fallback switches table extraction off
\* in the shared config
ThreadFallback_SwitchesTablesOff(t) ==
    /\ threads[t].pc = "fp_fallback"
    /\ threads' = [threads EXCEPT ![t] =
                      [threads[t] EXCEPT !.pc = "parse_attempt",
                                !.ret = Fallback(threads[t].running, threads[t].file_path, config)]]
    /\ config' = IF threads[t].running = "PDFParser"
                 THEN [config EXCEPT !.extract_tables = FALSE]
                 ELSE config
    /\ UNCHANGED <<entry, file_paths, k, results, file_path, i, running, pc, ret, out,
                   log, arg, handles>>

\* caller t, in <Parser>.parse: the step taken after the first one raised
ThreadFallback(t) ==
    /\ threads[t].pc = "fp_fallback"
    /\ threads' = [threads EXCEPT ![t] =
                      [threads[t] EXCEPT !.pc = "parse_attempt",
                                !.ret = Fallback(threads[t].running, threads[t].file_path, config)]]
    /\ UNCHANGED <<config, entry, file_paths, k, results, file_path, i, running, pc, ret, out,
                   log, arg, handles>>

\* caller t: return parser.parse(file_path), or except Exception: continue
ThreadAttemptDone(t) ==
    /\ threads[t].pc = "parse_attempt"
    /\ threads' = [threads EXCEPT ![t] =
                      IF threads[t].ret.kind = "doc"
                      THEN [threads[t] EXCEPT !.pc = "done", !.out = threads[t].ret]
                      ELSE [threads[t] EXCEPT !.pc = "parse_select", !.i = threads[t].i + 1]]
    /\ UNCHANGED <<config, entry, file_paths, k, results, file_path, i, running, pc, ret, out,
                   log, arg, handles>>

ConcNext ==
    \E t \in Threads :
        \/ ThreadCall(t)
        \/ ThreadCheckExists(t)
        \/ ThreadSelect(t)
        \/ ThreadNoParser(t)
        \/ ThreadValidate(t)
        \/ ThreadPrimary(t)
        \/ ThreadFallback(t)
        \/ ThreadAttemptDone(t)

ConcSpec == Init /\ [][ConcNext]_vars

-----------------------------------------------------------------------------
(* Reading the state *)

\* the path the caller handed to the parse that is running or has just ended
Input == file_paths[k]

\* a UniversalParser.parse call is running or has just ended
InParse ==
    \/ entry = "parse" /\ pc # "idle"
    \/ entry = "parse_multiple" /\ pc \notin {"idle", "batch_loop", "done"}

\* that call has ended: it returned or raised ret
ParseEnded ==
    \/ entry = "parse" /\ pc = "done"
    \/ entry = "parse_multiple" /\ pc = "batch_collect"

\* a <Parser>.parse call has ended: it returned or raised ret
FormatEnded ==
    \/ entry \in FormatParsers /\ pc = "done"
    \/ entry \notin FormatParsers /\ pc = "parse_attempt"

\* the parsers whose can_parse / parse was invoked, in order of invocation
Considered == [n \in 1..Len(SelectSeq(log, LAMBDA e : e[1] = "can_parse")) |->
                  SelectSeq(log, LAMBDA e : e[1] = "can_parse")[n][2]]

Attempted == [n \in 1..Len(SelectSeq(log, LAMBDA e : e[1] = "parse")) |->
                 SelectSeq(log, LAMBDA e : e[1] = "parse")[n][2]]

Logged(ev, parser) == \E n \in 1..Len(log) : log[n] = <<ev, parser>>

\* the events of the log that are calls of a third-party reader
IsReaderCall(e) == e[1] \notin {"can_parse", "parse", "validate_file", "logger.error", "return"}

\* the path fails validation: missing, not a regular file, or over the size limit
FailsValidation(p) ==
    \/ p.node.kind = "missing"
    \/ p.node.kind = "dir"
    \/ p.node.st_size > config.max_file_size_mb * 1024 * 1024

-----------------------------------------------------------------------------
(* Conformance of the step-by-step calls with the calls as functions *)

StepsAgree ==
    /\ FormatEnded => ret = FormatResult(running, file_path, config)
    /\ ParseEnded => ret = ParseResult(Input, config)

-----------------------------------------------------------------------------
(* C1 *)

\* C1: in every UniversalParser.parse call on an existing path the parsers are
\* considered in list order (PDFParser, then ExcelParser), each at most once; a parser
\* is attempted only if its can_parse is true; the call returns the document of the
\* first attempt that succeeds; a raising attempt makes the dispatcher go on to the
\* next parser; the call ends unsupported-format only after every matching parser was
\* attempted and failed, or none matched.
C1_DispatchOrder ==
    InParse /\ Exists(file_path) =>
        /\ \/ Considered = <<>>
           \/ Considered = <<"PDFParser">>
           \/ Considered = <<"PDFParser", "ExcelParser">>
        /\ \A n \in 1..Len(log) :
              log[n][1] = "parse" =>
                  /\ n > 1
                  /\ log[n - 1] = <<"can_parse", log[n][2]>>
                  /\ Lower(file_path.ext) \in
                        (IF log[n][2] = "PDFParser" THEN {"pdf"}
                         ELSE {"xlsx", "xls", "csv", "tsv"})
        /\ ParseEnded /\ ret.kind = "doc" =>
              /\ Attempted # <<>>
              /\ log[Len(log)] = <<"return", Attempted[Len(Attempted)]>>
              /\ ret = FormatResult(Attempted[Len(Attempted)], file_path, config)
              /\ \A n \in 1..(Len(Attempted) - 1) : Logged("logger.error", Attempted[n])
        /\ ParseEnded /\ ret.kind = "raise" =>
              /\ ret.err.msg.fmt = "No parser available for file type: {ext}"
              /\ Considered = <<"PDFParser", "ExcelParser">>
              /\ \A parser \in {"PDFParser", "ExcelParser"} :
                    can_parse(parser, file_path) =>
                        /\ Logged("parse", parser)
                        /\ Logged("logger.error", parser)
                        /\ FormatResult(parser, file_path, config).kind = "raise"
        /\ \A n \in 1..Len(log) :
              log[n][1] = "logger.error" /\ log[n][2] = "PDFParser" /\ pc \notin {"parse_select"} =>
                  Logged("can_parse", "ExcelParser")

\* a parse that ended unsupported-format after its PDFParser attempt raised and
\* ExcelParser was then considered
C1_Witness ==
    /\ entry = "parse" /\ pc = "done" /\ Exists(file_path)
    /\ out.kind = "raise"
    /\ Attempted = <<"PDFParser">>
    /\ Logged("logger.error", "PDFParser")
    /\ Considered = <<"PDFParser", "ExcelParser">>

-----------------------------------------------------------------------------
(* C2 *)

\* C2: UniversalParser.parse on a path that does not exist fails with the not-found
\* error naming the resolved absolute path, before any can_parse or parse of a parser
\* is invoked, and never returns a document.
C2_NotFound ==
    InParse /\ Input.node.kind = "missing" =>
        /\ log = <<>>
        /\ pc \in {"parse_exists", "done", "batch_collect"}
        /\ ParseEnded =>
              /\ ret.kind = "raise"
              /\ ret.err.type = "ValueError"
              /\ ret.err.msg = [fmt |-> "File not found: {file_path}",
                                file_path |-> [abs |-> TRUE, ext |-> Input.ext,
                                               node |-> Input.node]]

\* a parse of a missing relative path has ended
C2_Witness ==
    /\ entry = "parse" /\ pc = "done"
    /\ Input.node.kind = "missing" /\ ~Input.abs
    /\ out.kind = "raise"

-----------------------------------------------------------------------------
(* C3 *)

\* C3: parse_multiple never raises and returns one document per input path, in input
\* order: entry j is the document parse(paths[j]) returns when that call succeeds, and
\* otherwise a document of type UNKNOWN whose text contains the error message and whose
\* metadata['error'] is set; what one position holds does not depend on the others.
C3_BatchResult ==
    entry = "parse_multiple" =>
        /\ out.kind \in {"none", "list"}
        /\ pc \in {"batch_loop", "done"} => Len(results) = k - 1
        /\ pc = "done" =>
              /\ out.kind = "list"
              /\ Len(out.docs) = Len(file_paths)
              /\ \A j \in 1..Len(file_paths) :
                    LET alone == ParseResult(file_paths[j], config) IN
                    IF alone.kind = "doc"
                    THEN out.docs[j] = alone.doc
                    ELSE /\ out.docs[j].document_type = "unknown"
                         /\ out.docs[j].text = [fmt |-> "Error: {e}", e |-> alone.err.msg]
                         /\ DOMAIN out.docs[j].metadata = {"error"}
                         /\ out.docs[j].metadata.error = alone.err.msg

\* a finished batch whose first path failed and whose second path parsed
C3_Witness ==
    /\ entry = "parse_multiple" /\ pc = "done"
    /\ Len(file_paths) = 2
    /\ out.docs[1].document_type = "unknown"
    /\ out.docs[2].document_type = "pdf"

-----------------------------------------------------------------------------
(* C4 *)

\* C4: when a UniversalParser.parse call fails after the matching parser's parse raised
\* (a validation failure, or a PDF whose two extraction methods both failed), the error
\* that reaches the caller names the path and carries that cause.
C4_ErrorCarriesCause ==
    entry = "parse" /\ pc = "done" /\ out.kind = "raise" /\ Attempted # <<>> =>
        LET cause == FormatResult(Attempted[Len(Attempted)], file_path, config).err IN
        /\ "file_path" \in DOMAIN out.err.msg
        /\ out.err.msg.file_path = file_path
        /\ \/ out.err = cause
           \/ "cause" \in DOMAIN out.err.msg

-----------------------------------------------------------------------------
(* C5 *)

\* C5 as claimed: no operation returns a document for a path that fails validation:
\* not a Format Parser's parse, not UniversalParser.parse, not parse_multiple.
C5_NoDocumentForInvalidPath ==
    /\ entry \in FormatParsers /\ pc = "done" /\ FailsValidation(Input) => out.kind = "raise"
    /\ entry = "parse" /\ pc = "done" /\ FailsValidation(Input) => out.kind = "raise"
    /\ entry = "parse_multiple" /\ pc = "done" =>
          \A j \in 1..Len(out.docs) : ~FailsValidation(file_paths[j])

\* C5 as amended: a Format Parser's parse and UniversalParser.parse never return a
\* document for a path that fails validation (both raise); parse_multiple does return a
\* document for it, and that document is the error document (type UNKNOWN, no tables,
\* metadata['error'] set), never a parsed one.
C5_InvalidPathNeverParsed ==
    /\ entry \in FormatParsers /\ pc = "done" /\ FailsValidation(Input) => out.kind = "raise"
    /\ entry = "parse" /\ pc = "done" /\ FailsValidation(Input) => out.kind = "raise"
    /\ entry = "parse_multiple" /\ pc = "done" =>
          \A j \in 1..Len(file_paths) :
              FailsValidation(file_paths[j]) =>
                  /\ out.docs[j].document_type = "unknown"
                  /\ out.docs[j].tables = <<>>
                  /\ "error" \in DOMAIN out.docs[j].metadata

\* a finished batch holding the error document of an oversize .pdf file
C5_Witness ==
    /\ entry = "parse_multiple" /\ pc = "done"
    /\ \E j \in 1..Len(file_paths) :
          /\ file_paths[j].node.kind = "file"
          /\ FailsValidation(file_paths[j])
          /\ file_paths[j].ext = "pdf"
          /\ out.docs[j].document_type = "unknown"

-----------------------------------------------------------------------------
(* C6 *)

\* C6: in the parse of each Format Parser validate_file runs before any
\* format-specific step; if it returns false the call raises ValueError, no
\* format-specific step is executed and no document is returned.
C6_ValidateFirst ==
    /\ \A n \in 1..Len(log) :
          /\ log[n][1] = "parse" /\ n < Len(log) => log[n + 1] = <<"validate_file", log[n][2]>>
          /\ IsReaderCall(log[n]) =>
                /\ \E m \in 1..(n - 1) : log[m] = <<"validate_file", log[n][2]>>
                /\ ~FailsValidation(file_path)
    /\ FormatEnded /\ FailsValidation(file_path) =>
          /\ ret.kind = "raise"
          /\ ret.err.type = "ValueError"
          /\ \A n \in 1..Len(log) : ~IsReaderCall(log[n])

\* WordParser.parse of a .doc path that fails validation has raised
C6_Witness ==
    /\ entry = "WordParser" /\ pc = "done"
    /\ Lower(Input.ext) = "doc"
    /\ FailsValidation(Input)
    /\ out.kind = "raise"
    /\ log = <<<<"parse", "WordParser">>, <<"validate_file", "WordParser">>>>

-----------------------------------------------------------------------------
(* C7 *)

\* C7: ExcelParser.parse on a path that passes validate_file always returns a document:
\* for csv/tsv a failing first read degrades to a raw-text document without tables, and
\* a failing raw-text read to an error-as-text document; for xlsx/xls a failing first
\* read degrades to the openpyxl reader, and a failing openpyxl reader to a document of
\* type EXCEL without tables whose text carries the error message.
C7_ExcelAlwaysReturns ==
    FormatEnded /\ running = "ExcelParser" /\ ~FailsValidation(file_path) =>
        /\ ret.kind = "doc"
        /\ ~file_path.node.primary /\ Lower(file_path.ext) \in {"csv", "tsv"} =>
              /\ Logged("open", "ExcelParser")
              /\ ret.doc.document_type = "csv"
              /\ ret.doc.tables = <<>>
              /\ ret.doc.text.fmt = (IF file_path.node.fallback THEN "f.read()"
                                     ELSE "Error reading file: {e}")
        /\ ~file_path.node.primary /\ Lower(file_path.ext) \in {"xlsx", "xls"} =>
              /\ Logged("openpyxl.load_workbook", "ExcelParser")
              /\ ~file_path.node.fallback =>
                    /\ ret.doc.document_type = "excel"
                    /\ ret.doc.tables = <<>>
                    /\ ret.doc.text = [fmt |-> "Error parsing Excel file: {e}",
                                       e |-> [fmt |-> "reader failed", lib |-> "openpyxl"]]

\* ExcelParser.parse of a valid .xlsx file on which both readers raised has ended
C7_Witness ==
    /\ FormatEnded /\ running = "ExcelParser"
    /\ ~FailsValidation(file_path)
    /\ file_path.ext = "xlsx"
    /\ ~file_path.node.primary /\ ~file_path.node.fallback
    /\ ret.kind = "doc"

-----------------------------------------------------------------------------
(* C8 *)

\* the readers PDFParser called, in order
PdfReaders == SelectSeq(log, LAMBDA e : IsReaderCall(e) /\ e[2] = "PDFParser")

\* C8: PDFParser.parse on a valid path tries pdfplumber first and pypdf only if
\* pdfplumber raised; a document produced by pypdf has no tables; if both raise, the
\* call raises (no document).
C8_PdfFallback ==
    /\ running = "PDFParser" /\ PdfReaders # <<>> =>
          /\ PdfReaders[1] = <<"pdfplumber.open", "PDFParser">>
          /\ Len(PdfReaders) > 1 =>
                /\ PdfReaders = <<<<"pdfplumber.open", "PDFParser">>,
                                  <<"pypdf.PdfReader", "PDFParser">>>>
                /\ ~file_path.node.primary
    /\ FormatEnded /\ running = "PDFParser" /\ ~FailsValidation(file_path) =>
          /\ ~file_path.node.primary => Len(PdfReaders) = 2
          /\ file_path.node.primary => ret.kind = "doc" /\ "method" \notin DOMAIN ret.doc.metadata
          /\ ~file_path.node.primary /\ file_path.node.fallback =>
                /\ ret.kind = "doc"
                /\ ret.doc.metadata.method = "pypdf"
                /\ ret.doc.tables = <<>>
          /\ ~file_path.node.primary /\ ~file_path.node.fallback =>
                /\ ret.kind = "raise"
                /\ ret.err = [type |-> "Exception",
                              msg |-> [fmt |-> "reader failed", lib |-> "pypdf"]]

\* PDFParser.parse has ended with both readers having raised
C8_Witness ==
    /\ FormatEnded /\ running = "PDFParser"
    /\ ~FailsValidation(file_path)
    /\ ~file_path.node.primary /\ ~file_path.node.fallback
    /\ Len(PdfReaders) = 2
    /\ ret.kind = "raise"

-----------------------------------------------------------------------------
(* C9 *)

\* C9: when UniversalParser.parse fails because no parser matches or every matching
\* attempt failed, the error names the file's extension and every extension
\* get_supported_formats() returns (pdf, csv, tsv, xls, xlsx).
C9_ErrorListsSupportedFormats ==
    ParseEnded /\ ret.kind = "raise" /\ Exists(file_path) =>
        /\ ret.err.msg.ext = file_path.ext
        /\ get_supported_formats = {"pdf", "csv", "tsv", "xls", "xlsx"}
        /\ get_supported_formats \subseteq ret.err.msg.formats

-----------------------------------------------------------------------------
(* C10 *)

-----------------------------------------------------------------------------
(* C11 *)

\* the documents the calls made so far have returned
ReturnedDocs ==
    (IF ret.kind = "doc" THEN {ret.doc} ELSE {}) \cup {results[n] : n \in 1..Len(results)}

\* C11: every Table of every document a parser returned (PDF, Word, the tabular
\* parser's polars and openpyxl paths) has num_rows equal to the number of its rows and
\* num_columns equal to the number of its headers.
C11_TableCounts ==
    \A d \in ReturnedDocs :
        \A n \in 1..Len(d.tables) :
            /\ d.tables[n].num_rows = Len(d.tables[n].rows)
            /\ d.tables[n].num_columns = Len(d.tables[n].headers)

\* PDFParser returned a document whose table has rows shorter and longer than its header
C11_Witness ==
    /\ FormatEnded
    /\ running = "PDFParser"
    /\ ret.kind = "doc"
    /\ file_path.node.grid = RaggedGrid
    /\ Len(ret.doc.tables) = 1
    /\ ret.doc.tables[1].rows = << <<"x", "y">>, <<"x", "y", "z", "w">> >>

-----------------------------------------------------------------------------
(* C12 *)

\* Table.to_dict has returned out.dicts for the table arg.table
ToDictEnded == entry = "Table.to_dict" /\ pc = "done"

\* the keys of the mappings: the headers
HeaderSet(t) == {t.headers[n] : n \in 1..Len(t.headers)}

\* C12, as the claim states it: for a Table with non-empty headers and rows to_dict
\* returns one mapping per row in row order, and for each row the value under
\* headers[i] is row[i] when the row has a cell there and "" otherwise; cells past the
\* last header are dropped.
C12_ValueUnderHeader ==
    ToDictEnded /\ arg.table.headers # <<>> /\ arg.table.rows # <<>> =>
        /\ Len(out.dicts) = Len(arg.table.rows)
        /\ \A r \in 1..Len(arg.table.rows) :
              /\ DOMAIN out.dicts[r] = HeaderSet(arg.table)
              /\ \A n \in 1..Len(arg.table.headers) :
                    out.dicts[r][arg.table.headers[n]] =
                        IF n <= Len(arg.table.rows[r]) THEN arg.table.rows[r][n] ELSE ""

\* C12, amended: for a Table with non-empty headers and rows to_dict returns one mapping
\* per row in row order, keyed by the headers; the value under a header is the cell at
\* the last position where that header occurs, when the row has a cell there, and ""
\* otherwise (with distinct headers: row[i] under headers[i]); cells past the last
\* header are dropped.
C12_ValueUnderLastHeader ==
    ToDictEnded /\ arg.table.headers # <<>> /\ arg.table.rows # <<>> =>
        /\ Len(out.dicts) = Len(arg.table.rows)
        /\ \A r \in 1..Len(arg.table.rows) :
              /\ DOMAIN out.dicts[r] = HeaderSet(arg.table)
              /\ \A n \in 1..Len(arg.table.headers) :
                    LET last == CHOOSE j \in n..Len(arg.table.headers) :
                                    /\ arg.table.headers[j] = arg.table.headers[n]
                                    /\ \A m \in (j + 1)..Len(arg.table.headers) :
                                          arg.table.headers[m] # arg.table.headers[n]
                    IN out.dicts[r][arg.table.headers[n]] =
                           IF last <= Len(arg.table.rows[r]) THEN arg.table.rows[r][last] ELSE ""

\* to_dict was applied to a table with a repeated header, a row longer than the headers
\* and a row shorter
C12_Witness ==
    /\ ToDictEnded
    /\ arg.table.headers = <<"A", "B", "A">>
    /\ arg.table.rows = << <<"x", "y", "z", "w">>, <<"x">> >>
    /\ out.dicts[1]["A"] = "z"
    /\ out.dicts[1]["B"] = "y"
    /\ out.dicts[2]["A"] = ""

-----------------------------------------------------------------------------
(* C13 *)

\* detect_format has returned out.type for the path Input
DetectEnded == entry = "detect_format" /\ pc = "done"

\* C13: detect_format depends on the path string alone: whatever the name denotes in
\* the file system (nothing, a directory, any file) the same string gives the same
\* DocumentType; it depends on no registered parser (docx gives WORD, txt gives TEXT
\* though neither has a parser); it calls no reader and opens no file; a suffix outside
\* its table, or no suffix, gives UNKNOWN.
C13_DetectFormatPure ==
    DetectEnded =>
        /\ \A q \in Paths : q.abs = Input.abs /\ q.ext = Input.ext => detect_format(q) = out.type
        /\ Lower(Input.ext) \in {"docx", "doc"} => out.type = "word"
        /\ Lower(Input.ext) \in {"txt", "text", "md", "markdown"} => out.type = "text"
        /\ Lower(Input.ext) \notin {"pdf", "docx", "doc", "xlsx", "xls", "csv", "tsv",
                                    "txt", "text", "md", "markdown"} => out.type = "unknown"
        /\ log = <<>>
        /\ handles = {}

\* detect_format was asked about a .docx name that denotes no file, and for which no
\* parser is registered
C13_Witness ==
    /\ DetectEnded
    /\ Input.ext = "docx"
    /\ ~Exists(Input)
    /\ \A n \in 1..Len(parsers) : ~can_parse(parsers[n], Input)
    /\ out.type = "word"

-----------------------------------------------------------------------------
(* C14 *)

\* the codecs a text file may have been written with
NonUtf8Codecs == {"latin-1", "cp1252", "iso-8859-1"}

\* the character a byte stands for under one of those codecs
CharOf(codec, b) == IF codec = "cp1252" THEN Cp1252Char(b) ELSE Latin1Char(b)

\* the strings of up to MaxFileBytes characters
Strings == UNION {[1..n -> Chars] : n \in 0..MaxFileBytes}

\* str.encode(codec): the bytes, or UnicodeEncodeError
Encode(codec, s) ==
    IF \A n \in 1..Len(s) : \E b \in Bytes : CharOf(codec, b) = s[n]
    THEN Coded([n \in 1..Len(s) |-> CHOOSE b \in Bytes : CharOf(codec, b) = s[n]])
    ELSE CodecError

\* TextParser.parse has ended on a file that passes validation
TextEnded ==
    FormatEnded /\ running = "TextParser" /\ validate_file(file_path, config)

\* C14, for files the configured encoding (utf-8) cannot read: when the bytes of the
\* file are a string encoded with latin-1, cp1252 or iso-8859-1, TextParser.parse
\* returns a document whose text is that string.
C14_RoundTripText ==
    TextEnded /\ ~Decodes("utf-8", file_path) =>
        \A codec \in NonUtf8Codecs, s \in Strings :
            Encode(codec, s) = Coded(file_path.node.bytes) =>
                ret.kind = "doc" /\ ret.doc.text.chars = s

-----------------------------------------------------------------------------
(* C15 *)

\* PDFParser.parse has ended on a multi-page PDF without tables (a PDF: a file within
\* the size limit that pdfplumber or pypdf can read)
MultiPagePdfEnded ==
    /\ FormatEnded
    /\ running = "PDFParser"
    /\ validate_file(file_path, config)
    /\ file_path.node.primary \/ file_path.node.fallback
    /\ Len(file_path.node.pages) >= 2
    /\ file_path.node.ntables = 0

\* C15, as the claim states it: for a multi-page PDF without tables PDFParser.parse
\* returns a document with no tables, whose text has exactly one "--- Page N ---" marker
\* for each page N, in ascending order, and whose metadata['pages'] is the page count.
C15_MarkerPerPage ==
    MultiPagePdfEnded =>
        /\ ret.kind = "doc"
        /\ ret.doc.tables = <<>>
        /\ ret.doc.text.pages = [n \in 1..Len(file_path.node.pages) |-> n]
        /\ ret.doc.metadata.pages = Len(file_path.node.pages)

\* C15, amended: for a multi-page PDF without tables PDFParser.parse returns a document
\* with no tables, whose text has exactly one "--- Page N ---" marker for each page N
\* that has extractable text and none for the other pages, in ascending order, and
\* whose metadata['pages'] is the page count (pages without text included).
C15_MarkerPerPageWithText ==
    MultiPagePdfEnded =>
        /\ ret.kind = "doc"
        /\ ret.doc.tables = <<>>
        /\ \A n \in 1..Len(file_path.node.pages) :
              Cardinality({j \in 1..Len(ret.doc.text.pages) : ret.doc.text.pages[j] = n})
                  = IF file_path.node.pages[n] THEN 1 ELSE 0
        /\ \A j \in 1..Len(ret.doc.text.pages) :
              /\ ret.doc.text.pages[j] \in 1..Len(file_path.node.pages)
              /\ j > 1 => ret.doc.text.pages[j - 1] < ret.doc.text.pages[j]
        /\ ret.doc.metadata.pages = Len(file_path.node.pages)

\* PDFParser returned the document of a two-page PDF whose second page has no text
C15_Witness ==
    /\ MultiPagePdfEnded
    /\ file_path.node.pages = <<TRUE, FALSE>>
    /\ ret.kind = "doc"
    /\ ret.doc.text.pages = <<1>>
    /\ ret.doc.metadata.pages = 2

-----------------------------------------------------------------------------
(* C16 *)

\* C16: when a <Parser>.parse call has returned or raised, called directly or by the
\* dispatcher, every file or workbook handle opened during the call has been released.
C16_NoHandleOutlivesParse ==
    FormatEnded => handles = {}

-----------------------------------------------------------------------------
(* C17 *)

\* the positions in the retry order latin-1, cp1252, iso-8859-1 whose encoding decodes
\* the bytes bs
DecodingRetries(bs) ==
    {n \in 1..3 : Decode(<<"latin-1", "cp1252", "iso-8859-1">>[n], bs).ok}

\* C17: TextParser.parse on a valid path reads with the configured encoding first; it
\* retries exactly when that read raised a decode error; the retry returns the document
\* of the first of latin-1, cp1252, iso-8859-1 (in that order) that decodes the file,
\* with metadata['encoding'] naming it; when no encoding decodes the file the call
\* raises an error naming the path and returns no document.
C17_EncodingOrder ==
    TextEnded =>
        LET bs == file_path.node.bytes
            readers == SelectSeq(log, IsReaderCall)
            retries == DecodingRetries(bs)
            first == CHOOSE n \in retries : \A m \in retries : n <= m
        IN /\ readers[1] = <<"open(config.encoding)", "TextParser">>
           /\ IF Decode(config.encoding, bs).ok
              THEN /\ Len(readers) = 1
                   /\ ret.kind = "doc"
                   /\ ret.doc.metadata.encoding = config.encoding
                   /\ ret.doc.text.chars = Decode(config.encoding, bs).seq
              ELSE /\ readers = << <<"open(config.encoding)", "TextParser">>,
                                   <<"open(fallback encodings)", "TextParser">> >>
                   /\ IF retries = {}
                      THEN /\ ret.kind = "raise"
                           /\ ret.err.msg.file_path = file_path
                      ELSE /\ ret.kind = "doc"
                           /\ ret.doc.metadata.encoding =
                                  <<"latin-1", "cp1252", "iso-8859-1">>[first]
                           /\ ret.doc.text.chars =
                                  Decode(<<"latin-1", "cp1252", "iso-8859-1">>[first], bs).seq

\* TextParser returned the latin-1 reading of a file that is not valid UTF-8 and that
\* cp1252 decodes too
C17_Witness ==
    /\ TextEnded
    /\ file_path.node.bytes = <<"61", "E9">>
    /\ ~Decode("utf-8", file_path.node.bytes).ok
    /\ Decode("cp1252", file_path.node.bytes).ok
    /\ ret.kind = "doc"
    /\ ret.doc.metadata.encoding = "latin-1"
    /\ ret.doc.text.chars = <<"U+0061", "U+00E9">>

-----------------------------------------------------------------------------
(* C18 *)

\* C18: under any interleaving of the steps of concurrent UniversalParser.parse calls on
\* one dispatcher, no step changes the ParserConfig the dispatcher and its parsers share
\* (their only field besides the fixed parser list), and every call that has ended
\* returned or raised what the same call gives when it runs alone.
C18_ConcurrentCallsIndependent ==
    /\ [](\A t \in Threads :
             threads[t].pc = "done" => threads[t].out = ParseResult(threads[t].input, config))
    /\ [][config' = config]_vars

\* a call has returned the pypdf document of a PDF (with tables, which pdfplumber
\* cannot read) while another caller is inside PDFParser.parse on a PDF with tables
C18_Witness ==
    /\ threads[1].pc = "done"
    /\ threads[1].out.kind = "doc"
    /\ threads[1].out.doc.metadata = [pages |-> 1, method |-> "pypdf"]
    /\ threads[2].pc = "fp_primary"
    /\ threads[2].running = "PDFParser"
    /\ config.extract_tables

-----------------------------------------------------------------------------
(* C19 *)

\* C19: whatever the suffix of a path, at most one registered parser has can_parse
\* true; a UniversalParser.parse call therefore attempts at most one parser.parse, and
\* when that attempt raised the call ends in the "No parser available" error, with no
\* second attempt.
C19_AtMostOneAttempt ==
    /\ \A e \in Exts :
          Cardinality({n \in 1..Len(parsers) : can_parse(parsers[n], [NoPath EXCEPT !.ext = e])}) <= 1
    /\ InParse => Len(Attempted) <= 1
    /\ ParseEnded /\ Len(Attempted) = 1 /\ Logged("logger.error", Attempted[1]) =>
          ret = Raise(NoParserError(file_path))

\* a parse of a PDF ended after its one attempt, PDFParser.parse, had raised
C19_Witness ==
    /\ ParseEnded
    /\ Lower(file_path.ext) = "pdf"
    /\ Attempted = <<"PDFParser">>
    /\ Logged("logger.error", "PDFParser")
    /\ Considered = <<"PDFParser", "ExcelParser">>
    /\ ret = Raise(NoParserError(file_path))

-----------------------------------------------------------------------------
(* C20 *)

\* C20: a document UniversalParser.parse returns for a path, whichever reader or
\* degradation produced it, has the document_type detect_format gives for that path:
\* PDF for pdf, EXCEL for xlsx and xls, CSV for csv and tsv; it is never UNKNOWN.
C20_TypeMatchesDetectFormat ==
    ParseEnded /\ ret.kind = "doc" =>
        /\ ret.doc.document_type = detect_format(Input)
        /\ ret.doc.document_type =
              CASE Lower(Input.ext) = "pdf" -> "pdf"
                [] Lower(Input.ext) \in {"xlsx", "xls"} -> "excel"
                [] Lower(Input.ext) \in {"csv", "tsv"} -> "csv"
                [] OTHER -> "no document"
        /\ ret.doc.document_type # "unknown"

\* parse returned the error-as-text document of a workbook neither polars nor openpyxl
\* could read
C20_Witness ==
    /\ ParseEnded
    /\ Input.ext = "xls"
    /\ ~Input.node.primary
    /\ ~Input.node.fallback
    /\ ret.kind = "doc"
    /\ ret.doc.text.fmt = "Error parsing Excel file: {e}"
    /\ ret.doc.document_type = "excel"

-----------------------------------------------------------------------------
(* C21 *)

\* the resolved absolute form of a path: the same name and file, written absolute
AbsoluteForm(p) == [abs |-> TRUE, ext |-> p.ext, node |-> p.node]

\* C21: every document UniversalParser.parse returns carries as file_path the resolved
\* absolute form of the path it was called with; in the list parse_multiple returns,
\* entry j carries the resolved absolute form of paths[j] when its parse succeeded, and
\* paths[j] exactly as the caller wrote it when the entry is the error document.
C21_FilePathOfEntries ==
    /\ ParseEnded /\ ret.kind = "doc" => ret.doc.file_path = AbsoluteForm(Input)
    /\ entry = "parse_multiple" /\ pc = "done" =>
          \A j \in 1..Len(file_paths) :
              IF ParseResult(file_paths[j], config).kind = "doc"
              THEN /\ out.docs[j].document_type # "unknown"
                   /\ out.docs[j].file_path = AbsoluteForm(file_paths[j])
              ELSE /\ out.docs[j].document_type = "unknown"
                   /\ out.docs[j].file_path = file_paths[j]

\* a finished batch of two paths written relative: the first parsed, the second failed
C21_Witness ==
    /\ entry = "parse_multiple" /\ pc = "done"
    /\ Len(file_paths) = 2
    /\ ~file_paths[1].abs /\ ~file_paths[2].abs
    /\ out.docs[1].document_type = "csv"
    /\ out.docs[1].file_path.abs
    /\ out.docs[2].document_type = "unknown"
    /\ ~out.docs[2].file_path.abs

====
